---------------------------- MODULE Spec2Model ----------------------------
(***************************************************************************)
(* A model of the python-scheme interpreter: the lexer and parser          *)
(* (parser.py), the expression classes and their eval methods (expr.py),   *)
(* the environments (environment.py), the builtins (builtin.py) and the    *)
(* read-eval-print loop (interpreter.py).                                  *)
(*                                                                         *)
(* Text is a sequence of one-character strings, so that the lexer, the     *)
(* printer (repr) and int()/str() are modelled by what they do to the      *)
(* characters.  Python objects that are mutated after construction (the    *)
(* subexprs lists, the closure field of LambdaExpr and DefineMacroExpr,    *)
(* the bindings of an Environment) live in heaps indexed by identity.      *)
(***************************************************************************)
EXTENDS Integers, Sequences, FiniteSets, TLC

VARIABLES
  \* ---- lexer run, one iteration of lexer's while loop per step
  source,     \* the string handed to lexer
  inpt,       \* lexer's local inpt: the text still to be read
  tokens,     \* lexer's local tokens
  lexpc,      \* "lexing" | "done" | "failed" ("off" when no lexer run is followed)
  lexerr,     \* the exception that ended the run, or "none"
  \* ---- parse and print pipeline
  psrc,       \* the source text
  ppc,        \* "src" | "lexed" | "lexfailed" | "parsed" | "parsefailed" |
              \* "printed" | "reparsed" ("off" when no pipeline is followed)
  ptoks,      \* lexer(psrc)
  ptree,      \* parse_tokens(ptoks): [exprs, err]
  printed,    \* the repr of every top-level expression, joined by newlines
  ptree2,     \* parse_tokens(lexer(printed))
  \* ---- the interpreter
  pc,         \* "prompt" | "eval" | "stopped" | "hung" ("off" when no session runs)
  pending,    \* the expressions of the current line not yet evaluated
  lists,      \* heap of the subexprs lists
  lams,       \* heap of the LambdaExpr / DefineMacroExpr objects
  envs,       \* heap of the Environment objects; envs[GLOBAL] is Environment.GLOBAL
  out,        \* what the last step wrote to stdout
  log,        \* what the last step did, in order (history of the evaluation)
  last,       \* the last top-level expression evaluated, with its outcome
  book,       \* the lines this session's user types from
  typed,      \* the lines read so far, by their place in the book
  prompts,    \* prompts issued so far
  stdinOpen,  \* FALSE once sys.stdin has been closed
  exited      \* TRUE once the builtin exit has been called

lexvars == <<source, inpt, tokens, lexpc, lexerr>>
parsevars == <<psrc, ppc, ptoks, ptree, printed, ptree2>>
replvars == <<pc, pending, lists, lams, envs, out, log, last, book, typed,
              prompts, stdinOpen, exited>>
vars == <<lexvars, parsevars, replvars>>

-----------------------------------------------------------------------------
(* Bounds of the model.                                                    *)

\* longest input string of a lexer run
MaxLexLen == 4
\* longest source text of the parse and print pipeline
MaxSrcLen == 5
\* depth at which the host's recursion limit is reached
RecursionLimit == 6
\* iterations of lexer's loop followed before the model stops looking
MaxTokens == 6

-----------------------------------------------------------------------------
(* Characters and strings.                                                 *)

LowerSeq == <<"a","b","c","d","e","f","g","h","i","j","k","l","m",
              "n","o","p","q","r","s","t","u","v","w","x","y","z">>
UpperSeq == <<"A","B","C","D","E","F","G","H","I","J","K","L","M",
              "N","O","P","Q","R","S","T","U","V","W","X","Y","Z">>
DigitSeq == <<"0","1","2","3","4","5","6","7","8","9">>
Range(s) == {s[i] : i \in DOMAIN s}
Lower == Range(LowerSeq)
Upper == Range(UpperSeq)
Digit == Range(DigitSeq)
\* the character ` , which a TLA+ string cannot hold
Backquote == "bq"
\* str.lstrip() with no argument strips whitespace
Whitespace == {" ", "\n", "\t"}
\* the characters is_valid accepts beside the alphanumeric ones
SymbolPunct == {"!","$","%","&","*","/",":","<","=",">","?","@","^","_","~","+","-","."}

\* c.isalnum() or c in '!$%&*/:<=>?@^_~+-.'
is_valid(c) == c \in Lower \cup Upper \cup Digit \cup SymbolPunct

\* str.lower() on one character
LowerChar(c) ==
  IF c \in Upper THEN LowerSeq[CHOOSE i \in DOMAIN UpperSeq : UpperSeq[i] = c] ELSE c

\* str.lower()
ToLower(s) == [i \in DOMAIN s |-> LowerChar(s[i])]

\* s[:n]
Take(s, n) == SubSeq(s, 1, IF n < Len(s) THEN n ELSE Len(s))

\* s[from:] with from counted from 1
Drop(s, from) == SubSeq(s, from, Len(s))

\* s.find(c, start) counted from 1: the first place of c at or after start, 0 if none
Find(s, c, start) ==
  IF \E i \in start..Len(s) : s[i] = c
    THEN CHOOSE i \in start..Len(s) : s[i] = c /\ \A j \in start..(i-1) : s[j] # c
    ELSE 0

\* the strings of at most n characters of an alphabet
Strings(alphabet, n) == UNION {[1..k -> alphabet] : k \in 0..n}

RECURSIVE Lstrip(_)
Lstrip(s) ==
  IF s # <<>> /\ Head(s) \in Whitespace THEN Lstrip(Tail(s)) ELSE s

-----------------------------------------------------------------------------
(* parser.py: the lexer.                                                   *)

\* inpt[inpt.find('\n') + 1:] ; find is -1 when there is no newline, and then
\* the slice is the whole of inpt
strip_comment(s) == Drop(s, Find(s, "\n", 1) + 1)

\* result of the extract_* functions: the token (has = FALSE for None) and the rest
Tok(t, rest) == [has |-> TRUE, token |-> t, rest |-> rest, err |-> "none"]
NoTok(err) == [has |-> FALSE, token |-> <<>>, rest |-> <<>>, err |-> err]

extract_string_literal(s) ==
  LET quote_loc == Find(s, "\"", 2) IN
  IF quote_loc = 0 THEN NoTok("SyntaxError")
  ELSE Tok(SubSeq(s, 1, quote_loc), Drop(s, quote_loc + 1))

\* the length of the longest prefix of valid symbol characters
RECURSIVE SymbolEnd(_, _)
SymbolEnd(s, end_loc) ==
  IF end_loc < Len(s) /\ is_valid(s[end_loc + 1]) THEN SymbolEnd(s, end_loc + 1)
  ELSE end_loc

extract_symbol(s) ==
  LET end_loc == SymbolEnd(s, 0) IN
  Tok(ToLower(SubSeq(s, 1, end_loc)), Drop(s, end_loc + 1))

\* extract_token calls itself after stripping a comment; depth counts the calls
RECURSIVE extract_token_at(_, _)
extract_token_at(i, depth) ==
  LET s == Lstrip(i) IN
  IF depth > RecursionLimit THEN NoTok("RecursionError")
  ELSE IF s = <<>> THEN NoTok("none")
  ELSE IF Head(s) = ";" THEN extract_token_at(strip_comment(s), depth + 1)
  ELSE IF Head(s) \in {"(", ")", "'", Backquote, ","} THEN Tok(<<Head(s)>>, Tail(s))
  ELSE IF Head(s) = "\"" THEN extract_string_literal(s)
  ELSE IF Head(s) = "#" THEN Tok(Take(s, 2), Drop(s, 3))
  ELSE extract_symbol(s)

extract_token(i) == extract_token_at(i, 1)

\* lexer as a function.  An iteration that returns a token and leaves inpt as
\* it found it repeats for ever: the condition of the loop reads inpt alone.
RECURSIVE lexer_loop(_, _)
lexer_loop(i, toks) ==
  IF i = <<>> THEN [tokens |-> toks, err |-> "none"]
  ELSE LET r == extract_token(i) IN
       IF r.err # "none" THEN [tokens |-> toks, err |-> r.err]
       ELSE IF r.has /\ r.rest = i THEN [tokens |-> toks, err |-> "NoTermination"]
       ELSE lexer_loop(r.rest, IF r.has THEN Append(toks, r.token) ELSE toks)

lexer(i) == lexer_loop(i, <<>>)

-----------------------------------------------------------------------------
(* expr.py: the expressions the parser builds.  A CombinationExpr is       *)
(* written here with its subexprs in place; the interpreter below keeps    *)
(* the subexprs lists in a heap.                                           *)

Name(str) == [k |-> "Name", s |-> str]
IntegerLiteral(n) == [k |-> "Int", v |-> n]
\* StringLiteral.__init__: host_value = construction_token[1:-1]
StringLiteral(token) == [k |-> "Str", v |-> SubSeq(token, 2, Len(token) - 1)]
\* BooleanLiteral.__init__: host_value = construction_token == '#t'
BooleanLiteral(token) == [k |-> "Bool", v |-> (token = <<"#", "t">>)]
UndefinedExpr == [k |-> "Undef"]
CombinationExpr(subexprs) == [k |-> "Comb", sub |-> subexprs]

DigitVal(c) == (CHOOSE i \in DOMAIN DigitSeq : DigitSeq[i] = c) - 1

\* the digits of an integer token after its sign
IntBody(token) ==
  IF token # <<>> /\ Head(token) \in {"+", "-"} THEN Tail(token) ELSE token

\* whether int(token) succeeds: an optional sign, then digits, single
\* underscores allowed between digits
IsIntToken(token) ==
  LET b == IntBody(token) IN
  /\ b # <<>>
  /\ \A i \in DOMAIN b : b[i] \in Digit \cup {"_"}
  /\ b[1] \in Digit /\ b[Len(b)] \in Digit
  /\ \A i \in 1..(Len(b) - 1) : ~(b[i] = "_" /\ b[i + 1] = "_")

RECURSIVE DigitsVal(_, _)
DigitsVal(b, acc) ==
  IF b = <<>> THEN acc
  ELSE DigitsVal(Tail(b), IF Head(b) = "_" THEN acc ELSE 10 * acc + DigitVal(Head(b)))

\* int(token)
IntOf(token) ==
  IF Head(token) = "-" THEN 0 - DigitsVal(IntBody(token), 0)
  ELSE DigitsVal(IntBody(token), 0)

\* str(n) for an integer n
RECURSIVE NatStr(_)
NatStr(n) ==
  IF n < 10 THEN <<DigitSeq[n + 1]>> ELSE NatStr(n \div 10) \o <<DigitSeq[(n % 10) + 1]>>

IntStr(n) == IF n < 0 THEN <<"-">> \o NatStr(0 - n) ELSE NatStr(n)

\* SymbolicExpr.create_symbolic_expr over LiteralExpr.create_literal_expr and
\* NumericLiteral.create_numeric_literal: a string, an integer, a boolean, or
\* else (ValueError) a Name.  float(token) succeeds on no token of the
\* alphabets and programs used here (none holds a '.', an exponent, inf or
\* nan), so FloatLiteral is never built.
create_symbolic_expr(token) ==
  IF Head(token) = "\"" THEN StringLiteral(token)
  ELSE IF IsIntToken(token) THEN IntegerLiteral(IntOf(token))
  ELSE IF token \in {<<"#", "f">>, <<"f", "a", "l", "s", "e">>} THEN BooleanLiteral(<<"#", "f">>)
  ELSE IF token \in {<<"#", "t">>, <<"t", "r", "u", "e">>} THEN BooleanLiteral(<<"#", "t">>)
  ELSE Name(token)

-----------------------------------------------------------------------------
(* parser.py: the parser.                                                  *)

LP == <<"(">>
RP == <<")">>
SugarTokens == {<<"'">>, <<Backquote>>, <<",">>}

S_quote == <<"q","u","o","t","e">>
S_quasiquote == <<"q","u","a","s","i","q","u","o","t","e">>
S_unquote == <<"u","n","q","u","o","t","e">>

\* opname = {"'": 'quote', '`': 'quasiquote', ',': 'unquote'}[tokens[0]]
SugarName(token) ==
  IF token = <<"'">> THEN S_quote
  ELSE IF token = <<Backquote>> THEN S_quasiquote
  ELSE S_unquote

\* the for loop of extract_combination_tokens from token i on: the index at
\* which depth is back to 0, or 0 when the loop runs out (its else branch)
RECURSIVE CombinationEnd(_, _, _)
CombinationEnd(toks, i, depth) ==
  IF i > Len(toks) THEN 0
  ELSE LET d == IF toks[i] = LP THEN depth + 1
                ELSE IF toks[i] = RP THEN depth - 1
                ELSE depth
       IN IF d = 0 THEN i ELSE CombinationEnd(toks, i + 1, d)

\* an extract_combination_tokens that would stop at the first ")"
extract_combination_tokens_first(toks) ==
  IF \E i \in DOMAIN toks : toks[i] = RP
    THEN CHOOSE i \in DOMAIN toks : toks[i] = RP /\ \A j \in 1..(i - 1) : toks[j] # RP
    ELSE 0

extract_combination_tokens(toks) == CombinationEnd(toks, 1, 0)

\* what extract_expr returns: an expression (has = FALSE for None) and the rest
Parsed(e, rest) == [has |-> TRUE, expr |-> e, rest |-> rest, err |-> "none"]
ParsedNone(rest, err) == [has |-> FALSE, expr |-> UndefinedExpr, rest |-> rest, err |-> err]

extract_symbolic_expr(toks) == Parsed(create_symbolic_expr(toks[1]), Tail(toks))

RECURSIVE parse_loop(_, _), extract_expr(_)

\* parse_tokens' while loop
parse_loop(toks, exprs) ==
  IF toks = <<>> THEN [exprs |-> exprs, err |-> "none"]
  ELSE LET r == extract_expr(toks) IN
       IF r.err # "none" THEN [exprs |-> <<>>, err |-> r.err]
       ELSE parse_loop(r.rest, Append(exprs, r.expr))

parse_tokens(toks) == parse_loop(toks, <<>>)

extract_sugar_expr(toks) ==
  LET r == extract_expr(Tail(toks)) IN
  IF r.err # "none" THEN r
  ELSE IF ~r.has THEN ParsedNone(<<>>, "SyntaxError")
  ELSE Parsed(CombinationExpr(<<Name(SugarName(toks[1])), r.expr>>), r.rest)

extract_combination_expr(toks) ==
  LET end == extract_combination_tokens(toks) IN
  IF end = 0 THEN ParsedNone(<<>>, "SyntaxError")
  ELSE LET inner == parse_tokens(SubSeq(toks, 2, end - 1)) IN
       IF inner.err # "none" THEN ParsedNone(<<>>, inner.err)
       ELSE Parsed(CombinationExpr(inner.exprs), Drop(toks, end + 1))

extract_expr(toks) ==
  IF toks = <<>> THEN ParsedNone(toks, "none")
  ELSE IF toks[1] = RP THEN ParsedNone(<<>>, "SyntaxError")
  ELSE IF toks[1] = LP THEN extract_combination_expr(toks)
  ELSE IF toks[1] \in SugarTokens THEN extract_sugar_expr(toks)
  ELSE extract_symbolic_expr(toks)

-----------------------------------------------------------------------------
(* expr.py: repr, the printed form.                                        *)

S_undefined == <<"u","n","d","e","f","i","n","e","d">>

\* ' '.join(parts)
RECURSIVE JoinWith(_, _)
JoinWith(parts, sep) ==
  IF parts = <<>> THEN <<>>
  ELSE IF Len(parts) = 1 THEN parts[1]
  ELSE parts[1] \o sep \o JoinWith(Tail(parts), sep)

\* '#[{}]'.format(self.default_name): default_name is a Name object, which
\* formats as its __repr__, Name('...')
BuiltinRepr(name) ==
  <<"#", "[", "N", "a", "m", "e", "(", "'">> \o name \o <<"'", ")", "]">>

RECURSIVE repr(_)
repr(e) ==
  CASE e.k = "Name" -> e.s
    [] e.k = "Int" -> IntStr(e.v)
    [] e.k = "Str" -> e.v
    [] e.k = "Bool" -> IF e.v THEN <<"#", "t">> ELSE <<"#", "f">>
    [] e.k = "Undef" -> S_undefined
    [] e.k = "Builtin" -> BuiltinRepr(e.name)
    [] e.k = "Comb" ->
         <<"(">> \o JoinWith([i \in DOMAIN e.sub |-> repr(e.sub[i])], <<" ">>) \o <<")">>

-----------------------------------------------------------------------------
(* The interpreter's heaps.  A value is a Name, a literal, UndefinedExpr,  *)
(* or a reference to a mutable object:                                     *)
(*   [k |-> "CombObj", l]   a CombinationExpr over the subexprs list l     *)
(*   [k |-> "Lambda", o]    the LambdaExpr object o of lams                *)
(*   [k |-> "Macro", o]     the DefineMacroExpr object o of lams           *)
(*   [k |-> "Mu", l, args, body]   a MuExpr (it has no mutable field)      *)
(*   [k |-> "Builtin", name]       a BuiltinProcedure                      *)
(* A store S holds the heaps and what the evaluation wrote and did.        *)

\* eval calls nested deeper than this end in RecursionError
MaxDepth == 12

GLOBAL == 1
NoEnv == 0

CombObj(l) == [k |-> "CombObj", l |-> l]
BuiltinProcedure(name) == [k |-> "Builtin", name |-> name]

Literals == {"Int", "Str", "Bool", "Undef"}
\* isinstance(x, CallableExpr)
Callables == {"Lambda", "Mu", "Macro", "Builtin"}
\* the instances of CombinationExpr that have a subexprs attribute
WithSubexprs == {"CombObj", "Lambda", "Mu", "Macro"}

Ok(S, v) == [s |-> S, v |-> v, err |-> "none"]
Fail(S, err) == [s |-> S, v |-> UndefinedExpr, err |-> err]
Logged(S, event) == [S EXCEPT !.log = Append(@, event)]

\* a new list object
AllocList(S, subexprs) == [S EXCEPT !.lists = Append(@, subexprs)]
\* Environment.__init__ with a bindings argument: the new Environment keeps
\* the dict it is given
\* (map names the dict object, bindings is what the dict holds)
Environment(S, parent, map, bindings) ==
  [S EXCEPT !.envs = Append(@, [parent |-> parent, map |-> map, bindings |-> bindings])]

\* the dict object of the default argument bindings={} of
\* Environment.__init__: one object, made when the def is executed
DefaultBindings == 1

\* a bindings = {} that would give the dict of the default argument
FreshBindings_default(S) == DefaultBindings

\* bindings = {}: a new dict object, which no Environment holds yet
FreshBindings(S) ==
  1 + CHOOSE m \in {S.envs[e].map : e \in DOMAIN S.envs} :
        \A e \in DOMAIN S.envs : S.envs[e].map <= m
\* a LambdaExpr or DefineMacroExpr over the list l, CallableExpr.__init__
\* having set args and body, with its closure set by eval
AllocCallable(S, l, closure) ==
  [S EXCEPT !.lams = Append(@, [l |-> l, args |-> S.lists[l][2],
                                 body |-> S.lists[l][3], closure |-> closure])]

ListOf(v, S) == IF v.k \in {"CombObj", "Mu"} THEN v.l ELSE S.lams[v.o].l
\* v.subexprs
Subexprs(v, S) == S.lists[ListOf(v, S)]
ArgsOf(op, S) == IF op.k = "Mu" THEN op.args ELSE S.lams[op.o].args
BodyOf(op, S) == IF op.k = "Mu" THEN op.body ELSE S.lams[op.o].body

\* the tree a value prints as: every list read from the heap
RECURSIVE Tree(_, _)
Tree(v, S) ==
  IF v.k \in WithSubexprs
    THEN LET sub == Subexprs(v, S) IN CombinationExpr([i \in DOMAIN sub |-> Tree(sub[i], S)])
    ELSE v

\* the objects of a parsed tree put in the heap
RECURSIVE Load(_, _), LoadAll(_, _, _)
LoadAll(trees, S, acc) ==
  IF trees = <<>> THEN [s |-> S, vs |-> acc]
  ELSE LET r == Load(Head(trees), S) IN LoadAll(Tail(trees), r.s, Append(acc, r.v))

Load(tree, S) ==
  IF tree.k = "Comb"
    THEN LET r == LoadAll(tree.sub, S, <<>>) IN
         [s |-> AllocList(r.s, r.vs), v |-> CombObj(Len(r.s.lists) + 1)]
    ELSE [s |-> S, v |-> tree]

-----------------------------------------------------------------------------
(* environment.py and Name.eval.                                           *)

\* a bind that would write to the global environment
bind_global(S, env, name, value) ==
  [S EXCEPT !.envs[GLOBAL].bindings = (name.s :> value) @@ @]

\* Environment.bind, for a name that is a Name: the write goes to the dict
\* object, and shows in every Environment that holds that object
bind(S, env, name, value) ==
  [S EXCEPT !.envs = [e \in DOMAIN @ |->
     IF @[e].map = @[env].map
       THEN [@[e] EXCEPT !.bindings = (name.s :> value) @@ @]
       ELSE @[e]]]

\* Name.eval: env[self], on KeyError the parent, NameError at the global
RECURSIVE Lookup(_, _, _)
Lookup(str, env, S) ==
  IF str \in DOMAIN S.envs[env].bindings THEN Ok(S, S.envs[env].bindings[str])
  ELSE IF S.envs[env].parent = NoEnv THEN Fail(S, "NameError")
  ELSE Lookup(str, S.envs[env].parent, S)

-----------------------------------------------------------------------------
(* expr.py: CombinationExpr.sift.                                          *)

S_define == <<"d","e","f","i","n","e">>
S_if == <<"i","f">>
S_and == <<"a","n","d">>
S_or == <<"o","r">>
S_let == <<"l","e","t">>
S_begin == <<"b","e","g","i","n">>
S_lambda == <<"l","a","m","b","d","a">>
S_mu == <<"m","u">>
S_cons_stream == <<"c","o","n","s","-","s","t","r","e","a","m">>
S_set == <<"s","e","t","!">>
S_unquote_splicing == <<"u","n","q","u","o","t","e","-","s","p","l","i","c","i","n","g">>
S_define_macro == <<"d","e","f","i","n","e","-","m","a","c","r","o">>

\* the keys of sift's expr_class
Keywords ==
  {S_define, S_if, S_and, S_or, S_let, S_begin, S_lambda, S_mu, S_quote,
   S_cons_stream, S_set, S_quasiquote, S_unquote, S_unquote_splicing, S_define_macro}

\* expr_class[str]
expr_class(str) ==
  CASE str = S_define -> "DefineExpr"
    [] str = S_if -> "IfExpr"
    [] str = S_and -> "AndExpr"
    [] str = S_or -> "OrExpr"
    [] str = S_let -> "LetExpr"
    [] str = S_begin -> "BeginExpr"
    [] str = S_lambda -> "LambdaExpr"
    [] str = S_mu -> "MuExpr"
    [] str = S_quote -> "QuoteExpr"
    [] str = S_cons_stream -> "ConsStreamExpr"
    [] str = S_set -> "SetExpr"
    [] str = S_quasiquote -> "QuasiQuoteExpr"
    [] str = S_unquote -> "UnquoteExpr"
    [] str = S_unquote_splicing -> "UnquoteSplicingExpr"
    [] str = S_define_macro -> "DefineMacroExpr"

\* the classes that define form_name and nargs; the others (class X: pass)
\* have neither, and SpecialFormExpr.__init__ fails on self.form_name
nargs(cls) ==
  CASE cls \in {"DefineExpr", "LambdaExpr", "MuExpr", "DefineMacroExpr"} -> 3
    [] cls = "IfExpr" -> 4
    [] cls \in {"QuoteExpr", "QuasiQuoteExpr", "UnquoteExpr"} -> 2
    [] OTHER -> -1

\* sift: the class the combination is turned into, and the store after it.
\* Every exception of the constructor (IndexError and AttributeError on
\* subexprs[0]._str, KeyError, AttributeError on form_name, SyntaxError on the
\* arity) is caught by the bare except and gives a CallExpr.  IfExpr.__init__
\* does subexprs += [UndefinedExpr()] on a list of three, which extends the
\* list of the combination itself.  (The LambdaExpr, MuExpr or DefineMacroExpr
\* object is made by its eval below: until then nothing can refer to it.)
sift(v, S) ==
  LET l == ListOf(v, S)
      sub == S.lists[l]
  IN
  IF sub = <<>> \/ sub[1].k # "Name" \/ sub[1].s \notin Keywords
    THEN [cls |-> "CallExpr", s |-> S]
  ELSE LET cls == expr_class(sub[1].s) IN
       IF nargs(cls) = -1 THEN [cls |-> "CallExpr", s |-> S]
       ELSE IF cls = "IfExpr" THEN
         LET S1 == IF Len(sub) = 3 THEN [S EXCEPT !.lists[l] = Append(@, UndefinedExpr)]
                   ELSE S
         IN [cls |-> IF Len(S1.lists[l]) = nargs(cls) THEN cls ELSE "CallExpr", s |-> S1]
       ELSE [cls |-> IF Len(sub) = nargs(cls) THEN cls ELSE "CallExpr", s |-> S]

\* the head of a combination when it is a Name, for the log
HeadName(v, S) ==
  LET sub == Subexprs(v, S) IN
  IF sub # <<>> /\ sub[1].k = "Name" THEN sub[1].s ELSE <<>>

-----------------------------------------------------------------------------
(* expr.py: eval.  Every operator takes the store and returns             *)
(* [s, v, err]: the store after, the value, and the exception raised       *)
(* ("none" when it returned).  d counts the eval calls nested so far.      *)

W_plus == <<"+">>
W_minus == <<"-">>
W_equal == <<"=">>
W_apply == <<"a","p","p","l","y">>
W_display == <<"d","i","s","p","l","a","y">>
W_eval == <<"e","v","a","l">>
W_exit == <<"e","x","i","t">>
W_cons == <<"c","o","n","s">>
W_car == <<"c","a","r">>
W_cdr == <<"c","d","r">>

RECURSIVE Eval(_, _, _, _), EvalList(_, _, _, _, _), CallExpr_eval(_, _, _, _),
          BindArgs(_, _, _, _, _, _, _), partial_unquote(_, _, _, _),
          UnquoteAll(_, _, _, _, _), execute(_, _, _, _, _)

\* [arg.eval(env) for arg in exprs], left to right
EvalList(exprs, acc, env, S, d) ==
  IF exprs = <<>> THEN [s |-> S, vs |-> acc, err |-> "none"]
  ELSE LET r == Eval(Head(exprs), env, S, d + 1) IN
       IF r.err # "none" THEN [s |-> r.s, vs |-> acc, err |-> r.err]
       ELSE EvalList(Tail(exprs), Append(acc, r.v), env, r.s, d)

\* the loop of bind_and_exec: zip takes the next formal (from the list of
\* the formals as it is then), then the next operand; the operand is
\* evaluated, and then formal._str is read
BindArgs(formals, operands, i, bindings, call_env, S, d) ==
  IF i > Len(S.lists[formals]) \/ i > Len(operands)
    THEN [s |-> S, bindings |-> bindings, err |-> "none"]
  ELSE LET formal == S.lists[formals][i]
           r == Eval(operands[i], call_env, S, d + 1)
       IN IF r.err # "none" THEN [s |-> r.s, bindings |-> bindings, err |-> r.err]
          ELSE IF formal.k # "Name"
            THEN [s |-> r.s, bindings |-> bindings, err |-> "AttributeError"]
          ELSE BindArgs(formals, operands, i + 1, (formal.s :> r.v) @@ bindings,
                        call_env, r.s, d)

\* CallExpr.bind_and_exec for the operator op of the call over the list l
bind_and_exec(op, l, parent_env, call_env, S, d) ==
  LET args == ArgsOf(op, S) IN
  IF args.k \notin WithSubexprs THEN Fail(S, "AttributeError")
  ELSE LET b == BindArgs(ListOf(args, S), Tail(S.lists[l]), 1, <<>>, call_env, S, d) IN
       IF b.err # "none" THEN Fail(b.s, b.err)
       ELSE LET S1 == Environment(b.s, parent_env, FreshBindings(b.s), b.bindings)
                exec_env == Len(S1.envs)
                S2 == Logged(S1, [ev |-> "call", kind |-> op.k, op |-> op,
                                  call_env |-> call_env, exec_env |-> exec_env])
            IN Eval(BodyOf(op, S2), exec_env, S2, d + 1)

\* CallExpr.lambda_eval
lambda_eval(op, l, env, S, d) == bind_and_exec(op, l, S.lams[op.o].closure, env, S, d)

\* a mu_eval that would take the global environment for the parent
mu_eval_global(op, l, env, S, d) == bind_and_exec(op, l, GLOBAL, env, S, d)

\* CallExpr.mu_eval
mu_eval(op, l, env, S, d) == bind_and_exec(op, l, env, env, S, d)

\* CallExpr.macro_eval: the formals are bound to the operands as they are
\* written, the Environment is made, and then self.body is read: self is the
\* CallExpr, which has no attribute body
macro_eval(op, l, env, S, d) ==
  LET args == ArgsOf(op, S) IN
  IF args.k \notin WithSubexprs THEN Fail(S, "AttributeError")
  ELSE LET formals == Subexprs(args, S)
           operands == Tail(S.lists[l])
           n == IF Len(formals) < Len(operands) THEN Len(formals) ELSE Len(operands)
       IN IF \E i \in 1..n : formals[i].k # "Name" THEN Fail(S, "AttributeError")
          ELSE LET bindings == [str \in {formals[i].s : i \in 1..n} |->
                                  operands[CHOOSE i \in 1..n :
                                             /\ formals[i].s = str
                                             /\ \A j \in (i+1)..n : formals[j].s # str]]
                   S1 == Environment(S, S.lams[op.o].closure, FreshBindings(S), bindings)
                   S2 == Logged(S1, [ev |-> "call", kind |-> op.k, op |-> op,
                                     call_env |-> env, exec_env |-> Len(S1.envs)])
               IN Fail(S2, "AttributeError")

\* CallExpr.builtin_eval
builtin_eval(op, l, env, S, d) ==
  LET a == EvalList(Tail(S.lists[l]), <<>>, env, S, d) IN
  IF a.err # "none" THEN Fail(a.s, a.err)
  ELSE execute(op.name, a.vs, env, a.s, d)

\* CallExpr.eval for the CallExpr over the list l
CallExpr_eval(l, env, S, d) ==
  IF S.lists[l] = <<>> THEN Fail(S, "IndexError")
  ELSE LET r == Eval(S.lists[l][1], env, S, d + 1) IN
       IF r.err # "none" THEN r
       ELSE IF r.v.k \notin Callables THEN Fail(r.s, "ValueError")
       ELSE IF r.v.k = "Lambda" THEN lambda_eval(r.v, l, env, r.s, d)
       ELSE IF r.v.k = "Mu" THEN mu_eval(r.v, l, env, r.s, d)
       ELSE IF r.v.k = "Builtin" THEN builtin_eval(r.v, l, env, r.s, d)
       ELSE macro_eval(r.v, l, env, r.s, d)

\* LambdaExpr.eval and DefineMacroExpr.eval on the object just sifted from
\* the list l: self.closure = env; return self
Callable_eval(kind, l, env, S) ==
  LET S1 == AllocCallable(S, l, env) IN Ok(S1, [k |-> kind, o |-> Len(S1.lams)])

\* DefineExpr.eval
DefineExpr_eval(l, env, S, d) ==
  LET sub == S.lists[l] IN
  IF sub[2].k = "Name" THEN
    LET r == Eval(sub[3], env, S, d + 1) IN
    IF r.err # "none" THEN r
    ELSE LET S1 == bind(r.s, env, sub[2], r.v) IN
         Ok(Logged(S1, [ev |-> "define", env |-> env, name |-> sub[2], val |-> r.v,
                        before |-> r.s.envs, after |-> S1.envs]), sub[2])
  \* name = self[1][0]; args = CombinationExpr(self[1][1:]); any exception
  \* becomes SyntaxError
  ELSE IF sub[2].k \notin WithSubexprs \/ Subexprs(sub[2], S) = <<>>
    THEN Fail(S, "SyntaxError")
  ELSE
    LET name == Subexprs(sub[2], S)[1]
        S1 == AllocList(S, Tail(Subexprs(sub[2], S)))
        args == CombObj(Len(S1.lists))
        S2 == AllocList(S1, <<Name(S_lambda), args, sub[3]>>)
        r == Callable_eval("Lambda", Len(S2.lists), env, S2)
    IN \* Environment.bind raises ValueError for a name that is not a Name
       IF name.k # "Name" THEN Fail(r.s, "ValueError")
       ELSE LET S3 == bind(r.s, env, name, r.v) IN
            Ok(Logged(S3, [ev |-> "define", env |-> env, name |-> name, val |-> r.v,
                           before |-> r.s.envs, after |-> S3.envs]), name)

\* IfExpr.eval: every value but BooleanLiteral('#f') is true
IfExpr_eval(l, env, S, d) ==
  LET sub == S.lists[l]
      p == Eval(sub[2], env, S, d + 1)
  IN IF p.err # "none" THEN p
     ELSE IF ~(p.v.k = "Bool" /\ ~p.v.v) THEN Eval(sub[3], env, p.s, d + 1)
     ELSE Eval(sub[4], env, p.s, d + 1)

\* [partial_unquote(e) for e in expr.subexprs]
UnquoteAll(exprs, acc, env, S, d) ==
  IF exprs = <<>> THEN [s |-> S, vs |-> acc, err |-> "none"]
  ELSE LET r == partial_unquote(Head(exprs), env, S, d) IN
       IF r.err # "none" THEN [s |-> r.s, vs |-> acc, err |-> r.err]
       ELSE UnquoteAll(Tail(exprs), Append(acc, r.v), env, r.s, d)

\* partial_unquote of QuasiQuoteExpr.eval.  expr.sift() is run for the
\* isinstance test, and the subexprs are read after it.
partial_unquote(x, env, S, d) ==
  IF x.k \in {"Name"} \cup Literals THEN Ok(S, x)
  \* a BuiltinProcedure is a CombinationExpr with no subexprs
  ELSE IF x.k = "Builtin" THEN Fail(S, "AttributeError")
  ELSE LET sf == sift(x, S) IN
       IF sf.cls = "UnquoteExpr" THEN Eval(x, env, sf.s, d + 1)
       ELSE LET r == UnquoteAll(Subexprs(x, sf.s), <<>>, env, sf.s, d) IN
            IF r.err # "none" THEN Fail(r.s, r.err)
            ELSE LET S1 == AllocList(r.s, r.vs) IN Ok(S1, CombObj(Len(S1.lists)))

\* QuasiQuoteExpr.eval
QuasiQuoteExpr_eval(l, env, S, d) ==
  LET datum == S.lists[l][2]
      r == partial_unquote(datum, env, S, d)
  IN IF r.err # "none" THEN r
     ELSE Ok(Logged(r.s, [ev |-> "quasiquote", env |-> env,
                          before |-> Tree(datum, S), after |-> Tree(datum, r.s),
                          result |-> Tree(r.v, r.s), envs |-> r.s.envs]), r.v)

\* the eval of the class sift chose for the combination over the list l
Sifted_eval(cls, l, env, S, d) ==
  CASE cls = "CallExpr" -> CallExpr_eval(l, env, S, d)
    [] cls = "DefineExpr" -> DefineExpr_eval(l, env, S, d)
    [] cls = "IfExpr" -> IfExpr_eval(l, env, S, d)
    [] cls = "LambdaExpr" -> Callable_eval("Lambda", l, env, S)
    [] cls = "DefineMacroExpr" -> Callable_eval("Macro", l, env, S)
    \* CallableExpr.eval: return self
    [] cls = "MuExpr" ->
         Ok(S, [k |-> "Mu", l |-> l, args |-> S.lists[l][2], body |-> S.lists[l][3]])
    \* QuoteExpr.eval: return self[1]
    [] cls = "QuoteExpr" -> Ok(S, S.lists[l][2])
    [] cls = "QuasiQuoteExpr" -> QuasiQuoteExpr_eval(l, env, S, d)
    \* UnquoteExpr.eval
    [] cls = "UnquoteExpr" -> Eval(S.lists[l][2], env, S, d + 1)

\* e.eval(env)
Eval(e, env, S, d) ==
  IF d > MaxDepth THEN Fail(S, "RecursionError")
  ELSE IF e.k = "Name" THEN Lookup(e.s, env, S)
  \* LiteralExpr.eval, and CallableExpr.eval of a MuExpr or a BuiltinProcedure
  ELSE IF e.k \in Literals \cup {"Mu", "Builtin"} THEN Ok(S, e)
  \* LambdaExpr.eval, DefineMacroExpr.eval: self.closure = env
  ELSE IF e.k \in {"Lambda", "Macro"} THEN Ok([S EXCEPT !.lams[e.o].closure = env], e)
  \* CombinationExpr.eval: self.sift().eval(env)
  ELSE LET sf == sift(e, S)
           S1 == Logged(sf.s, [ev |-> "sift", head |-> HeadName(e, S),
                               len |-> Len(Subexprs(e, S)), cls |-> sf.cls])
       IN Sifted_eval(sf.cls, e.l, env, S1, d)

-----------------------------------------------------------------------------
(* builtin.py.  Modelled: + - = apply display eval exit cons car cdr.     *)
(* Not modelled: * / < load (they are not bound in the model's global      *)
(* environment, and no program of the model names them).                   *)

BuiltinNames ==
  {W_plus, W_minus, W_equal, W_apply, W_display, W_eval, W_exit, W_cons, W_car, W_cdr}

\* the expressions with a host_value attribute
HasHostValue(v) == v.k \in {"Int", "Str", "Bool"}
\* a host_value in arithmetic: a Python bool is the integer 0 or 1
Num(v) == IF v.k = "Bool" THEN (IF v.v THEN 1 ELSE 0) ELSE v.v

\* the exception of sum(arg.host_value ...) or sum(-arg.host_value ...): at
\* the first argument without a host_value AttributeError, at the first
\* string TypeError
SumError(args) ==
  IF \A i \in DOMAIN args : args[i].k \in {"Int", "Bool"} THEN "none"
  ELSE LET i == CHOOSE i \in DOMAIN args :
                  /\ args[i].k \notin {"Int", "Bool"}
                  /\ \A j \in 1..(i-1) : args[j].k \in {"Int", "Bool"}
       IN IF args[i].k = "Str" THEN "TypeError" ELSE "AttributeError"

RECURSIVE SumOf(_)
SumOf(args) == IF args = <<>> THEN 0 ELSE Num(Head(args)) + SumOf(Tail(args))

\* __add_exec
add_exec(args, S) ==
  IF SumError(args) # "none" THEN Fail(S, SumError(args))
  ELSE Ok(S, IntegerLiteral(SumOf(args)))

\* __sub_exec: args[0].host_value + sum(-arg.host_value for arg in args[1:])
sub_exec(args, S) ==
  IF args = <<>> THEN Fail(S, "IndexError")
  ELSE IF ~HasHostValue(args[1]) THEN Fail(S, "AttributeError")
  ELSE IF SumError(Tail(args)) # "none" THEN Fail(S, SumError(Tail(args)))
  ELSE IF args[1].k = "Str" THEN Fail(S, "TypeError")
  ELSE Ok(S, IntegerLiteral(Num(args[1]) - SumOf(Tail(args))))

\* a == b on host values
HostEqual(a, b) ==
  IF a.k = "Str" \/ b.k = "Str" THEN a.k = b.k /\ a.v = b.v ELSE Num(a) = Num(b)

\* __equalsign_exec: a, b = [arg.host_value for arg in args]
equalsign_exec(args, S) ==
  IF \E i \in DOMAIN args : ~HasHostValue(args[i]) THEN Fail(S, "AttributeError")
  ELSE IF Len(args) # 2 THEN Fail(S, "ValueError")
  ELSE Ok(S, [k |-> "Bool", v |-> HostEqual(args[1], args[2])])

\* __cons_exec: CombinationExpr(args)
cons_exec(args, S) ==
  LET S1 == AllocList(S, args) IN Ok(S1, CombObj(Len(S1.lists)))

\* the exception of args[0][...]
SubscriptError(args) ==
  IF args = <<>> THEN "IndexError"
  ELSE IF args[1].k = "Builtin" THEN "AttributeError"
  ELSE IF args[1].k \notin WithSubexprs THEN "TypeError"
  ELSE "none"

\* __car_exec: args[0][0]
car_exec(args, S) ==
  IF SubscriptError(args) # "none" THEN Fail(S, SubscriptError(args))
  ELSE IF Subexprs(args[1], S) = <<>> THEN Fail(S, "IndexError")
  ELSE Ok(S, Subexprs(args[1], S)[1])

\* __cdr_exec: CombinationExpr(args[0][1:])
cdr_exec(args, S) ==
  IF SubscriptError(args) # "none" THEN Fail(S, SubscriptError(args))
  ELSE LET S1 == AllocList(S, Tail(Subexprs(args[1], S))) IN Ok(S1, CombObj(Len(S1.lists)))

\* __display_exec: print(args[0].repr(), end='')
display_exec(args, S) ==
  IF args = <<>> THEN Fail(S, "IndexError")
  ELSE Ok([S EXCEPT !.out = Append(@, [k |-> "display", text |-> repr(Tree(args[1], S))])],
          UndefinedExpr)

\* __exit_exec: exit() of the site module closes sys.stdin and raises SystemExit
exit_exec(args, S) ==
  Fail([S EXCEPT !.stdinOpen = FALSE, !.exited = TRUE], "SystemExit")

\* self.operator.execute(args, env)
execute(name, args, env, S, d) ==
  CASE name = W_plus -> add_exec(args, S)
    [] name = W_minus -> sub_exec(args, S)
    [] name = W_equal -> equalsign_exec(args, S)
    [] name = W_cons -> cons_exec(args, S)
    [] name = W_car -> car_exec(args, S)
    [] name = W_cdr -> cdr_exec(args, S)
    [] name = W_display -> display_exec(args, S)
    [] name = W_exit -> exit_exec(args, S)
    \* __eval_exec: args[0].eval(env)
    [] name = W_eval ->
         IF args = <<>> THEN Fail(S, "IndexError") ELSE Eval(args[1], env, S, d + 1)
    \* __apply_exec: CallExpr([args[0]] + args[1].subexprs).eval(env)
    [] name = W_apply ->
         IF Len(args) < 2 THEN Fail(S, "IndexError")
         ELSE IF args[2].k \notin WithSubexprs THEN Fail(S, "AttributeError")
         ELSE LET S1 == AllocList(S, <<args[1]>> \o Subexprs(args[2], S)) IN
              CallExpr_eval(Len(S1.lists), env, S1, d + 1)

\* bind_builtins(Environment.GLOBAL)
bind_builtins == [name \in BuiltinNames |-> BuiltinProcedure(name)]

-----------------------------------------------------------------------------
(* The parse and print pipeline: a source text is lexed, parsed, printed   *)
(* and the printed form parsed again.                                      *)

ParseAlphabet == {"(", ")", "'", Backquote, ",", " ", "a", "\"", "1"}

NoTree == [exprs |-> <<>>, err |-> "none"]

ParseInit ==
  /\ psrc \in Strings(ParseAlphabet, MaxSrcLen)
  /\ ppc = "src"
  /\ ptoks = [tokens |-> <<>>, err |-> "none"]
  /\ ptree = NoTree
  /\ printed = <<>>
  /\ ptree2 = NoTree

\* lexer(psrc)
PLex ==
  /\ ppc = "src"
  /\ ptoks' = lexer(psrc)
  /\ ppc' = IF ptoks'.err = "none" THEN "lexed" ELSE "lexfailed"
  /\ UNCHANGED <<psrc, ptree, printed, ptree2>>

\* parse_tokens(ptoks)
PParse ==
  /\ ppc = "lexed"
  /\ ptree' = parse_tokens(ptoks.tokens)
  /\ ppc' = IF ptree'.err = "none" THEN "parsed" ELSE "parsefailed"
  /\ UNCHANGED <<psrc, ptoks, printed, ptree2>>

\* exp.repr() for every expression, one per line as the REPL prints them
PPrint ==
  /\ ppc = "parsed"
  /\ printed' = JoinWith([i \in DOMAIN ptree.exprs |-> repr(ptree.exprs[i])], <<"\n">>)
  /\ ppc' = "printed"
  /\ UNCHANGED <<psrc, ptoks, ptree, ptree2>>

\* parse_tokens(lexer(printed))
PReparse ==
  /\ ppc = "printed"
  /\ LET l == lexer(printed) IN
       ptree2' = IF l.err # "none" THEN [exprs |-> <<>>, err |-> l.err]
                 ELSE parse_tokens(l.tokens)
  /\ ppc' = "reparsed"
  /\ UNCHANGED <<psrc, ptoks, ptree, printed>>

LexAlphabet == {"(", "'", ";", "\n", " ", "a", "B", "\"", "#", "["}

-----------------------------------------------------------------------------
(* The lexer run: one step per iteration of lexer's while loop.            *)

LexInit ==
  /\ source \in Strings(LexAlphabet, MaxLexLen)
  /\ inpt = source
  /\ tokens = <<>>
  /\ lexpc = "lexing"
  /\ lexerr = "none"

\* while inpt: token, inpt = extract_token(inpt); append the token unless None
LexStep ==
  /\ lexpc = "lexing"
  /\ inpt # <<>>
  /\ Len(tokens) < MaxTokens
  /\ LET r == extract_token(inpt) IN
       IF r.err # "none"
         THEN /\ lexpc' = "failed"
              /\ lexerr' = r.err
              /\ UNCHANGED <<inpt, tokens>>
         ELSE /\ inpt' = r.rest
              /\ tokens' = IF r.has THEN Append(tokens, r.token) ELSE tokens
              /\ UNCHANGED <<lexpc, lexerr>>
  /\ UNCHANGED source

\* the condition of the loop is false: return tokens
LexReturn ==
  /\ lexpc = "lexing"
  /\ inpt = <<>>
  /\ lexpc' = "done"
  /\ UNCHANGED <<source, inpt, tokens, lexerr>>

-----------------------------------------------------------------------------
(* The lines typed at the prompt, as the characters typed.  A session      *)
(* types lines of one book, in any order and number up to the bound.       *)

ScopingLines ==
  << \* (define (make-adder n) (lambda (x) (+ x n)))
     <<"(","d","e","f","i","n","e"," ","(","m","a","k","e","-","a","d","d",
     "e","r"," ","n",")"," ","(","l","a","m","b","d","a"," ","(","x",")",
     " ","(","+"," ","x"," ","n",")",")",")">>,
     \* ((make-adder 1) 2)
     <<"(","(","m","a","k","e","-","a","d","d","e","r"," ","1",")"," ","2",
     ")">>,
     \* ((make-adder -2) 10)
     <<"(","(","m","a","k","e","-","a","d","d","e","r"," ","-","2",")"," ",
     "1","0",")">>,
     \* (define n 50)
     <<"(","d","e","f","i","n","e"," ","n"," ","5","0",")">>,
     \* ((lambda (n) ((make-adder 1) 2)) 70)
     <<"(","(","l","a","m","b","d","a"," ","(","n",")"," ","(","(","m","a",
     "k","e","-","a","d","d","e","r"," ","1",")"," ","2",")",")"," ","7",
     "0",")">>,
     \* ((lambda (+) (eval make-adder)) -)
     <<"(","(","l","a","m","b","d","a"," ","(","+",")"," ","(","e","v","a",
     "l"," ","m","a","k","e","-","a","d","d","e","r",")",")"," ","-",")">>,
     \* (define f (mu () n))
     <<"(","d","e","f","i","n","e"," ","f"," ","(","m","u"," ","(",")"," ",
     "n",")",")">>,
     \* (f)
     <<"(","f",")">>,
     \* ((lambda (n) (f)) 42)
     <<"(","(","l","a","m","b","d","a"," ","(","n",")"," ","(","f",")",")",
     " ","4","2",")">>,
     \* (define h ((lambda (n) (mu () n)) 5))
     <<"(","d","e","f","i","n","e"," ","h"," ","(","(","l","a","m","b","d",
     "a"," ","(","n",")"," ","(","m","u"," ","(",")"," ","n",")",")"," ",
     "5",")",")">>,
     \* (h)
     <<"(","h",")">>
  >>

DefineLines ==
  << \* (define a 1)
     <<"(","d","e","f","i","n","e"," ","a"," ","1",")">>,
     \* (define a (define b 2))
     <<"(","d","e","f","i","n","e"," ","a"," ","(","d","e","f","i","n","e",
     " ","b"," ","2",")",")">>,
     \* (define (g y) (define a y))
     <<"(","d","e","f","i","n","e"," ","(","g"," ","y",")"," ","(","d","e",
     "f","i","n","e"," ","a"," ","y",")",")">>,
     \* (g 5)
     <<"(","g"," ","5",")">>,
     \* ((mu (y) (define a y)) 7)
     <<"(","(","m","u"," ","(","y",")"," ","(","d","e","f","i","n","e"," ",
     "a"," ","y",")",")"," ","7",")">>,
     \* ((lambda (y) ((lambda (z) (define y z)) 9)) 8)
     <<"(","(","l","a","m","b","d","a"," ","(","y",")"," ","(","(","l","a",
     "m","b","d","a"," ","(","z",")"," ","(","d","e","f","i","n","e"," ",
     "y"," ","z",")",")"," ","9",")",")"," ","8",")">>,
     \* a
     <<"a">>,
     \* (define (1 x) 2) (define a 3)
     <<"(","d","e","f","i","n","e"," ","(","1"," ","x",")"," ","2",")"," ",
     "(","d","e","f","i","n","e"," ","a"," ","3",")">>,
     \* (define 1 2)
     <<"(","d","e","f","i","n","e"," ","1"," ","2",")">>,
     \* ((lambda (y) (eval (quote (define a y)))) 6)
     <<"(","(","l","a","m","b","d","a"," ","(","y",")"," ","(","e","v","a",
     "l"," ","(","q","u","o","t","e"," ","(","d","e","f","i","n","e"," ",
     "a"," ","y",")",")",")",")"," ","6",")">>
  >>

FormsLines ==
  << \* (define a 1)
     <<"(","d","e","f","i","n","e"," ","a"," ","1",")">>,
     \* (if #t 1 2)
     <<"(","i","f"," ","#","t"," ","1"," ","2",")">>,
     \* (if #f 1)
     <<"(","i","f"," ","#","f"," ","1",")">>,
     \* (and #t #t)
     <<"(","a","n","d"," ","#","t"," ","#","t",")">>,
     \* (or #f #t)
     <<"(","o","r"," ","#","f"," ","#","t",")">>,
     \* (let ((a 1)) a)
     <<"(","l","e","t"," ","(","(","a"," ","1",")",")"," ","a",")">>,
     \* (begin 1 2)
     <<"(","b","e","g","i","n"," ","1"," ","2",")">>,
     \* (lambda (x) x)
     <<"(","l","a","m","b","d","a"," ","(","x",")"," ","x",")">>,
     \* (mu (x) x)
     <<"(","m","u"," ","(","x",")"," ","x",")">>,
     \* (quote a)
     <<"(","q","u","o","t","e"," ","a",")">>,
     \* (cons-stream 1 2)
     <<"(","c","o","n","s","-","s","t","r","e","a","m"," ","1"," ","2",")">>,
     \* (set! a 2)
     <<"(","s","e","t","!"," ","a"," ","2",")">>,
     \* (quasiquote a)
     <<"(","q","u","a","s","i","q","u","o","t","e"," ","a",")">>,
     \* (unquote 1)
     <<"(","u","n","q","u","o","t","e"," ","1",")">>,
     \* (unquote-splicing a)
     <<"(","u","n","q","u","o","t","e","-","s","p","l","i","c","i","n","g",
     " ","a",")">>,
     \* (define-macro (m x) x)
     <<"(","d","e","f","i","n","e","-","m","a","c","r","o"," ","(","m"," ",
     "x",")"," ","x",")">>,
     \* (+ 1 2)
     <<"(","+"," ","1"," ","2",")">>,
     \* (car (quote (1 2)))
     <<"(","c","a","r"," ","(","q","u","o","t","e"," ","(","1"," ","2",")",
     ")",")">>,
     \* (define a)
     <<"(","d","e","f","i","n","e"," ","a",")">>,
     \* (if)
     <<"(","i","f",")">>,
     \* (quote a b)
     <<"(","q","u","o","t","e"," ","a"," ","b",")">>,
     \* (lambda (x))
     <<"(","l","a","m","b","d","a"," ","(","x",")",")">>,
     \* (1 2)
     <<"(","1"," ","2",")">>,
     \* ()
     <<"(",")">>
  >>

MacroLines ==
  << \* (define m (define-macro (m x) (quote (+ 1 2))))
     <<"(","d","e","f","i","n","e"," ","m"," ","(","d","e","f","i","n","e",
     "-","m","a","c","r","o"," ","(","m"," ","x",")"," ","(","q","u","o",
     "t","e"," ","(","+"," ","1"," ","2",")",")",")",")">>,
     \* (m (car 1))
     <<"(","m"," ","(","c","a","r"," ","1",")",")">>,
     \* ((define-macro (k x) (quote 5)) (car 1))
     <<"(","(","d","e","f","i","n","e","-","m","a","c","r","o"," ","(","k",
     " ","x",")"," ","(","q","u","o","t","e"," ","5",")",")"," ","(","c",
     "a","r"," ","1",")",")">>,
     \* (define-macro (m x) (quote (+ 1 2)))
     <<"(","d","e","f","i","n","e","-","m","a","c","r","o"," ","(","m"," ",
     "x",")"," ","(","q","u","o","t","e"," ","(","+"," ","1"," ","2",")",
     ")",")">>
  >>

QuasiLines ==
  << \* (define a 2)
     <<"(","d","e","f","i","n","e"," ","a"," ","2",")">>,
     \* (backquote)(a ,a (b ,a))
     <<Backquote,"(","a"," ",",","a"," ","(","b"," ",",","a",")",")">>,
     \* (backquote)(if a b)
     <<Backquote,"(","i","f"," ","a"," ","b",")">>,
     \* (backquote)(x (if a b) ,a)
     <<Backquote,"(","x"," ","(","i","f"," ","a"," ","b",")"," ",",","a",
     ")">>,
     \* ,a
     <<",","a">>,
     \* (define q '(if a b))
     <<"(","d","e","f","i","n","e"," ","q"," ","'","(","i","f"," ","a"," ",
     "b",")",")">>,
     \* q
     <<"q">>,
     \* (eval q)
     <<"(","e","v","a","l"," ","q",")">>,
     \* (backquote)(a b)
     <<Backquote,"(","a"," ","b",")">>
  >>

ExitLines ==
  << \* (exit)
     <<"(","e","x","i","t",")">>,
     \* (+ 1 2) (exit) (+ 3 4)
     <<"(","+"," ","1"," ","2",")"," ","(","e","x","i","t",")"," ","(","+",
     " ","3"," ","4",")">>,
     \* (+ 5 6)
     <<"(","+"," ","5"," ","6",")">>,
     \* (display "hi")
     <<"(","d","i","s","p","l","a","y"," ","\"","h","i","\"",")">>,
     \* "abc
     <<"\"","a","b","c">>,
     \* (+ 1 2))
     <<"(","+"," ","1"," ","2",")",")">>,
     \* ; c
     <<";"," ","c">>,
     \* a [
     <<"a"," ","[">>,
     \* 
     <<>>
  >>


ClosureLines ==
  << \* (define add ((lambda (n) (lambda (x) (+ x n))) 3))
     <<"(","d","e","f","i","n","e"," ","a","d","d"," ","(","(","l","a","m",
     "b","d","a"," ","(","n",")"," ","(","l","a","m","b","d","a"," ","(",
     "x",")"," ","(","+"," ","x"," ","n",")",")",")"," ","3",")",")">>,
     \* (add 4)
     <<"(","a","d","d"," ","4",")">>,
     \* (eval add)
     <<"(","e","v","a","l"," ","a","d","d",")">>,
     \* (define n 50)
     <<"(","d","e","f","i","n","e"," ","n"," ","5","0",")">>,
     \* (apply add '(4))
     <<"(","a","p","p","l","y"," ","a","d","d"," ","'","(","4",")",")">>
  >>

OrderLines ==
  << \* ((lambda (x y) 0) (display "a") (display "b"))
     <<"(","(","l","a","m","b","d","a"," ","(","x"," ","y",")"," ","0",")",
     " ","(","d","i","s","p","l","a","y"," ","\"","a","\"",")"," ","(","d",
     "i","s","p","l","a","y"," ","\"","b","\"",")",")">>,
     \* ((lambda () 0) (display "a"))
     <<"(","(","l","a","m","b","d","a"," ","(",")"," ","0",")"," ","(","d",
     "i","s","p","l","a","y"," ","\"","a","\"",")",")">>,
     \* ((mu (x) 0) (display "a") (display "b"))
     <<"(","(","m","u"," ","(","x",")"," ","0",")"," ","(","d","i","s","p",
     "l","a","y"," ","\"","a","\"",")"," ","(","d","i","s","p","l","a","y",
     " ","\"","b","\"",")",")">>,
     \* (cons (display "a") (display "b"))
     <<"(","c","o","n","s"," ","(","d","i","s","p","l","a","y"," ","\"",
     "a","\"",")"," ","(","d","i","s","p","l","a","y"," ","\"","b","\"",
     ")",")">>,
     \* ((lambda (x y z) 0) (display "a"))
     <<"(","(","l","a","m","b","d","a"," ","(","x"," ","y"," ","z",")"," ",
     "0",")"," ","(","d","i","s","p","l","a","y"," ","\"","a","\"",")",")">>,
     \* ((car (cons (lambda (x) 0) (display "a"))) (display "b"))
     <<"(","(","c","a","r"," ","(","c","o","n","s"," ","(","l","a","m","b",
     "d","a"," ","(","x",")"," ","0",")"," ","(","d","i","s","p","l","a",
     "y"," ","\"","a","\"",")",")",")"," ","(","d","i","s","p","l","a","y",
     " ","\"","b","\"",")",")">>
  >>

Books == {"Scoping", "Define", "Forms", "Macro", "Quasi", "Exit", "Closure", "Order"}

BookLines(b) ==
  CASE b = "Scoping" -> ScopingLines
    [] b = "Define" -> DefineLines
    [] b = "Forms" -> FormsLines
    [] b = "Macro" -> MacroLines
    [] b = "Quasi" -> QuasiLines
    [] b = "Exit" -> ExitLines
    [] b = "Closure" -> ClosureLines
    [] b = "Order" -> OrderLines

\* lines read in one session
MaxLines == 3
\* lines read in one session of the book of the special forms
MaxFormLines == 2
\* calls of input followed after sys.stdin was closed
MaxClosedPrompts == 2

LineBound(b) == IF b = "Forms" THEN MaxFormLines ELSE MaxLines

\* lexer(line) and parse_tokens(lexer(line)) of every line of every book
Lexed == [b \in Books |-> [i \in DOMAIN BookLines(b) |-> lexer(BookLines(b)[i])]]
ParsedLines == [b \in Books |-> [i \in DOMAIN BookLines(b) |-> parse_tokens(Lexed[b][i].tokens)]]

-----------------------------------------------------------------------------
(* interpreter.py: the read-eval-print loop.                               *)

NoLast == [src |-> UndefinedExpr, val |-> UndefinedExpr, err |-> "none", n |-> 0]

ReplInit ==
  /\ book \in Books
  /\ typed = <<>>
  /\ pc = "prompt"
  /\ pending = <<>>
  /\ lists = <<>>
  /\ lams = <<>>
  \* Environment.GLOBAL = Environment(None), then bind_builtins
  /\ envs = <<[parent |-> NoEnv, map |-> DefaultBindings, bindings |-> bind_builtins]>>
  /\ out = <<>>
  /\ log = <<>>
  /\ last = NoLast
  /\ prompts = 0
  /\ stdinOpen = TRUE
  /\ exited = FALSE

\* the store an evaluation starts from
Store == [lists |-> lists, lams |-> lams, envs |-> envs, out |-> <<>>, log |-> <<>>,
          stdinOpen |-> stdinOpen, exited |-> exited]

ErrorLine(name) == [k |-> "error", type |-> name]

\* input('>') returns a line: parse_tokens(lexer(line)) is computed before
\* the for loop starts.  An exception of lexer or parse_tokens is printed,
\* and the loop goes on; a lexer that does not return leaves the REPL hung.
ReadLine ==
  /\ pc = "prompt"
  /\ stdinOpen
  /\ Len(typed) < LineBound(book)
  /\ \E i \in DOMAIN BookLines(book) :
       LET lx == Lexed[book][i]
           pr == ParsedLines[book][i]
           ld == LoadAll(pr.exprs, Store, <<>>)
       IN /\ typed' = Append(typed, i)
          /\ IF lx.err = "NoTermination"
               THEN /\ pc' = "hung"
                    /\ out' = <<>>
                    /\ UNCHANGED <<pending, lists>>
             ELSE IF lx.err # "none" \/ pr.err # "none"
               THEN /\ pc' = "prompt"
                    /\ out' = <<ErrorLine(IF lx.err # "none" THEN lx.err ELSE pr.err)>>
                    /\ UNCHANGED <<pending, lists>>
             ELSE /\ pending' = ld.vs
                  /\ lists' = ld.s.lists
                  /\ out' = <<>>
                  /\ pc' = IF ld.vs = <<>> THEN "prompt" ELSE "eval"
  /\ prompts' = prompts + 1
  /\ log' = <<>>
  /\ UNCHANGED <<lams, envs, last, book, stdinOpen, exited>>

\* input('>') at the end of the input: EOFError leaves the loop
ReadEOF ==
  /\ pc = "prompt"
  /\ stdinOpen
  /\ pc' = "stopped"
  /\ prompts' = prompts + 1
  /\ out' = <<[k |-> "farewell"]>>
  /\ log' = <<>>
  /\ UNCHANGED <<pending, lists, lams, envs, last, book, typed, stdinOpen, exited>>

\* input('>') on the closed sys.stdin: the prompt is written, the read
\* raises ValueError, which except BaseException catches and prints
ReadClosed ==
  /\ pc = "prompt"
  /\ ~stdinOpen
  /\ prompts < Len(typed) + MaxClosedPrompts
  /\ prompts' = prompts + 1
  /\ out' = <<ErrorLine("ValueError")>>
  /\ log' = <<>>
  /\ UNCHANGED <<pc, pending, lists, lams, envs, last, book, typed, stdinOpen, exited>>

\* one turn of the for loop: print(exp.eval(Environment.GLOBAL).repr()).
\* Any exception but EOFError ends the for loop, is printed, and the while
\* loop goes on.
EvalNext ==
  /\ pc = "eval"
  /\ LET e == Head(pending)
         r == Eval(e, GLOBAL, Store, 1)
     IN /\ lists' = r.s.lists
        /\ lams' = r.s.lams
        /\ envs' = r.s.envs
        /\ log' = r.s.log
        /\ stdinOpen' = r.s.stdinOpen
        /\ exited' = r.s.exited
        /\ last' = [src |-> Tree(e, Store), val |-> Tree(r.v, r.s), err |-> r.err,
                    n |-> last.n + 1]
        /\ IF r.err = "none"
             THEN /\ out' = Append(r.s.out, [k |-> "print", text |-> repr(Tree(r.v, r.s))])
                  /\ pending' = Tail(pending)
                  /\ pc' = IF Tail(pending) = <<>> THEN "prompt" ELSE "eval"
             ELSE /\ out' = Append(r.s.out, ErrorLine(r.err))
                  /\ pending' = <<>>
                  /\ pc' = "prompt"
  /\ UNCHANGED <<book, typed, prompts>>

-----------------------------------------------------------------------------
(* The specifications.                                                     *)

ReplIdle ==
  /\ pc = "off" /\ pending = <<>> /\ lists = <<>> /\ lams = <<>> /\ envs = <<>>
  /\ out = <<>> /\ log = <<>> /\ last = NoLast /\ book = "none" /\ typed = <<>>
  /\ prompts = 0 /\ stdinOpen = TRUE /\ exited = FALSE

LexIdle ==
  /\ source = <<>> /\ inpt = <<>> /\ tokens = <<>> /\ lexpc = "off" /\ lexerr = "none"

ParseIdle ==
  /\ psrc = <<>> /\ ppc = "off" /\ ptoks = [tokens |-> <<>>, err |-> "none"]
  /\ ptree = NoTree /\ printed = <<>> /\ ptree2 = NoTree

\* the lexer runs
InitLex == LexInit /\ ParseIdle /\ ReplIdle

LexNext ==
  \/ LexStep /\ UNCHANGED <<parsevars, replvars>>
  \/ LexReturn /\ UNCHANGED <<parsevars, replvars>>

SpecLex == InitLex /\ [][LexNext]_vars

\* the parse and print pipeline
InitParse == ParseInit /\ LexIdle /\ ReplIdle

ParseNext ==
  \/ PLex /\ UNCHANGED <<lexvars, replvars>>
  \/ PParse /\ UNCHANGED <<lexvars, replvars>>
  \/ PPrint /\ UNCHANGED <<lexvars, replvars>>
  \/ PReparse /\ UNCHANGED <<lexvars, replvars>>

SpecParse == InitParse /\ [][ParseNext]_vars

\* the interpreter
Init == ReplInit /\ LexIdle /\ ParseIdle

Next ==
  \/ ReadLine /\ UNCHANGED <<lexvars, parsevars>>
  \/ ReadEOF /\ UNCHANGED <<lexvars, parsevars>>
  \/ ReadClosed /\ UNCHANGED <<lexvars, parsevars>>
  \/ EvalNext /\ UNCHANGED <<lexvars, parsevars>>

Spec == Init /\ [][Next]_vars

-----------------------------------------------------------------------------
(* The properties.  log holds what the last evaluation did, last what it   *)
(* was given and what it returned.                                         *)

W_make_adder == <<"m","a","k","e","-","a","d","d","e","r">>
W_n == <<"n">>
W_f == <<"f">>
W_h == <<"h">>

\* the expression a line of a book parses to
LineTree(b, i) == ParsedLines[b][i].exprs[1]

\* the tree of ((make-adder a) b)
AdderCall(a, b) ==
  CombinationExpr(<<CombinationExpr(<<Name(W_make_adder), IntegerLiteral(a)>>),
                    IntegerLiteral(b)>>)

\* the tree of the lambda that (define (make-adder n) (lambda (x) (+ x n)))
\* binds make-adder to
AdderTree ==
  CombinationExpr(<<Name(S_lambda), CombinationExpr(<<Name(W_n)>>),
                    LineTree("Scoping", 1).sub[3]>>)

GlobalBindings == envs[GLOBAL].bindings

\* make-adder is bound as its define binds it, and + is the builtin
MakeAdderDefined ==
  /\ pc \in {"prompt", "eval", "stopped"}
  /\ W_make_adder \in DOMAIN GlobalBindings
  /\ GlobalBindings[W_make_adder].k = "Lambda"
  /\ Tree(GlobalBindings[W_make_adder], Store) = AdderTree
  /\ GlobalBindings[W_plus] = BuiltinProcedure(W_plus)

AdderInts == {-2, 1, 2, 10}

\* C1: with make-adder defined by (define (make-adder n) (lambda (x) (+ x n))),
\* every call ((make-adder a) b) evaluated at the prompt returns a + b, and
\* so does the call made in a frame that binds n to something else.
C1_LexicalScoping ==
  MakeAdderDefined /\ last.n > 0 =>
    /\ \A a, b \in AdderInts :
         last.src = AdderCall(a, b) =>
           last.err = "none" /\ last.val = IntegerLiteral(a + b)
    /\ last.src = LineTree("Scoping", 5) =>
         last.err = "none" /\ last.val = IntegerLiteral(3)

\* C1: ((make-adder 1) 2) has been evaluated at the prompt, with make-adder
\* defined as above, and returned 1
C1_CallReturnedOne ==
  /\ MakeAdderDefined
  /\ last.src = AdderCall(1, 2)
  /\ last.err = "none"
  /\ last.val = IntegerLiteral(1)

\* the calls of mu procedures the last evaluation made
MuCalls == {i \in DOMAIN log : log[i].ev = "call" /\ log[i].kind = "Mu"}

\* f is bound in the global environment to (mu () n)
MuDefined(w) ==
  /\ pc \in {"prompt", "eval", "stopped"}
  /\ w \in DOMAIN GlobalBindings
  /\ GlobalBindings[w].k = "Mu"
  /\ Tree(GlobalBindings[w], Store) = LineTree("Scoping", 7).sub[3]

\* what the name n evaluates to in the global environment
GlobalN == Lookup(W_n, GLOBAL, Store)

\* C2: the frame in which the body of a mu call is evaluated has the
\* environment of the call for its parent.  So with f and h bound to
\* (mu () n), wherever the mu was evaluated, the calls (f) and (h) at the
\* prompt return what n is bound to in the global environment and raise
\* NameError when it is not bound, and (f) called in a frame that binds n
\* to 42 returns 42.
C2_MuDynamicScope ==
  /\ \A i \in MuCalls : envs[log[i].exec_env].parent = log[i].call_env
  /\ last.n > 0 /\ MuDefined(W_f) /\ last.src = LineTree("Scoping", 8) =>
       /\ last.err = GlobalN.err
       /\ last.err = "none" => last.val = Tree(GlobalN.v, Store)
       /\ W_n \notin DOMAIN GlobalBindings => last.err = "NameError"
  /\ last.n > 0 /\ MuDefined(W_h) /\ last.src = LineTree("Scoping", 11) =>
       /\ last.err = GlobalN.err
       /\ last.err = "none" => last.val = Tree(GlobalN.v, Store)
       /\ W_n \notin DOMAIN GlobalBindings => last.err = "NameError"
  /\ last.n > 0 /\ MuDefined(W_f) /\ last.src = LineTree("Scoping", 9) =>
       last.err = "none" /\ last.val = IntegerLiteral(42)

\* C2: (f) called in the frame of (lambda (n) ...) 42 has returned 42 while
\* the global environment binds n to 50
C2_MuSawCallerBinding ==
  /\ MuDefined(W_f)
  /\ last.src = LineTree("Scoping", 9)
  /\ last.val = IntegerLiteral(42)
  /\ \E i \in MuCalls : log[i].call_env # GLOBAL
  /\ W_n \in DOMAIN GlobalBindings /\ GlobalBindings[W_n] = IntegerLiteral(50)

\* the defines the last evaluation made
Defines == {i \in DOMAIN log : log[i].ev = "define"}

\* the tree of a combination whose head is the name define
IsDefineTree(t) == t.k = "Comb" /\ Len(t.sub) = 3 /\ t.sub[1] = Name(S_define)

\* the name a define tree defines
DefinedName(t) == IF t.sub[2].k = "Comb" THEN t.sub[2].sub[1] ELSE t.sub[2]

\* C3: a define evaluated in env leaves name bound to the value in env's own
\* bindings, every other name of env as it was, and every other environment
\* as it was; a define evaluated at the prompt returns the Name and binds it
\* in the global environment.
C3_DefineWritesOwnFrame ==
  /\ \A i \in Defines :
       LET d == log[i] IN
       /\ DOMAIN d.after = DOMAIN d.before
       /\ DOMAIN d.after[d.env].bindings = DOMAIN d.before[d.env].bindings \cup {d.name.s}
       /\ d.after[d.env].bindings[d.name.s] = d.val
       /\ \A w \in DOMAIN d.before[d.env].bindings \ {d.name.s} :
            d.after[d.env].bindings[w] = d.before[d.env].bindings[w]
       /\ d.after[d.env].parent = d.before[d.env].parent
       /\ \A e \in DOMAIN d.before : e # d.env => d.after[e] = d.before[e]
  /\ last.n > 0 /\ IsDefineTree(last.src) /\ last.err = "none" =>
       /\ last.val = DefinedName(last.src)
       /\ last.val.k = "Name"
       /\ last.val.s \in DOMAIN GlobalBindings
       /\ last.src.sub[2].k = "Name" /\ last.src.sub[3].k \in Literals =>
            GlobalBindings[last.val.s] = last.src.sub[3]

\* C3: a define in the body of a procedure has bound, in the frame of the
\* call, a name that the global environment binds too, and the global
\* binding is as it was
C3_DefineInBody ==
  \E i \in Defines :
    LET d == log[i] IN
    /\ d.env # GLOBAL
    /\ d.name.s \in DOMAIN d.before[GLOBAL].bindings
    /\ d.after[GLOBAL].bindings[d.name.s] = d.before[GLOBAL].bindings[d.name.s]
    /\ d.after[d.env].bindings[d.name.s] # d.after[GLOBAL].bindings[d.name.s]

\* the combinations the last evaluation sifted
Sifts == {i \in DOMAIN log : log[i].ev = "sift"}

\* the numbers of sub-expressions a combination headed by a keyword is
\* written with; the keywords not listed take any number
Shape(keyword) ==
  CASE keyword \in {S_define, S_lambda, S_mu, S_define_macro} -> {3}
    [] keyword = S_if -> {3, 4}
    [] keyword \in {S_quote, S_quasiquote, S_unquote} -> {2}
    [] OTHER -> Nat

\* C4: every combination headed by one of the fifteen keywords, written with
\* the number of sub-expressions its form takes, is evaluated as the class of
\* that keyword and not as a CallExpr, so that the keyword is not looked up as
\* a name; every combination not headed by a keyword is evaluated as a
\* CallExpr.
C4_SpecialFormDispatch ==
  /\ \A i \in Sifts :
       LET e == log[i] IN
       /\ e.head \in Keywords /\ e.len \in Shape(e.head) => e.cls = expr_class(e.head)
       /\ e.head \notin Keywords => e.cls = "CallExpr"
  /\ last.n > 0 /\ last.src.k = "Comb" /\ last.src.sub # <<>>
       /\ last.src.sub[1].k = "Name" /\ last.src.sub[1].s \in Keywords
       /\ Len(last.src.sub) \in Shape(last.src.sub[1].s)
       /\ (\A j \in 2..Len(last.src.sub) : last.src.sub[j].k \in Literals)
       => last.err # "NameError"

\* C4: (and #t #t) has been evaluated at the prompt as a CallExpr, and the
\* lookup of the name and has raised NameError
C4_AndLookedUp ==
  /\ pc \in {"prompt", "eval"}
  /\ last.src = LineTree("Forms", 4)
  /\ last.err = "NameError"
  /\ \E i \in Sifts : log[i].head = S_and /\ log[i].cls = "CallExpr"

\* the calls of macros the last evaluation made
MacroCalls == {i \in DOMAIN log : log[i].ev = "call" /\ log[i].kind = "Macro"}

W_m == <<"m">>

\* m is bound in the global environment to the macro
\* (define-macro (m x) (quote (+ 1 2)))
MacroDefined ==
  /\ pc \in {"prompt", "eval", "stopped"}
  /\ W_m \in DOMAIN GlobalBindings
  /\ GlobalBindings[W_m].k = "Macro"
  /\ Tree(GlobalBindings[W_m], Store) = LineTree("Macro", 4)

\* C5: a call whose operator is a macro returns the value, in the
\* environment of the call, of the expression the body of the macro gives,
\* and does not evaluate the operands: with m bound to
\* (define-macro (m x) (quote (+ 1 2))), the call (m (car 1)), whose operand
\* would fail if it were evaluated, returns 3, and the call of
\* (define-macro (k x) (quote 5)) on (car 1) returns 5.
C5_MacroCall ==
  last.n > 0 =>
    /\ MacroDefined /\ last.src = LineTree("Macro", 2) =>
         last.err = "none" /\ last.val = IntegerLiteral(3)
    /\ last.src = LineTree("Macro", 3) =>
         last.err = "none" /\ last.val = IntegerLiteral(5)

\* C5: the call (m (car 1)) of the macro bound to m has bound the operand
\* as written in a new frame under the closure of the macro, and has raised
\* AttributeError
C5_MacroCallFailed ==
  /\ MacroDefined
  /\ last.src = LineTree("Macro", 2)
  /\ last.err = "AttributeError"
  /\ \E i \in MacroCalls :
       /\ envs[log[i].exec_env].parent = lams[log[i].op.o].closure
       /\ \E w \in DOMAIN envs[log[i].exec_env].bindings :
            Tree(envs[log[i].exec_env].bindings[w], Store) = LineTree("Macro", 2).sub[2]

\* the quasiquotes the last evaluation made
Quasiquotes == {i \in DOMAIN log : log[i].ev = "quasiquote"}

\* the copy of the datum t with every (unquote e) replaced by the value of e
\* in the environment env of the environments es, for the e that are names
\* and literals
RECURSIVE QQExpected(_, _, _)
QQExpected(t, env, es) ==
  IF t.k # "Comb" THEN t
  ELSE IF Len(t.sub) = 2 /\ t.sub[1] = Name(S_unquote)
    THEN IF t.sub[2].k = "Name" THEN Lookup(t.sub[2].s, env, [envs |-> es]).v
         ELSE t.sub[2]
  ELSE CombinationExpr([j \in DOMAIN t.sub |-> QQExpected(t.sub[j], env, es)])

\* C6: a quasiquote returns the copy of its datum with every (unquote e)
\* replaced by the value of e and every other element as written, and the
\* datum is after the evaluation what it was before.
C6_QuasiquoteCopies ==
  \A i \in Quasiquotes :
    LET q == log[i] IN
    /\ q.result = QQExpected(q.before, q.env, q.envs)
    /\ q.after = q.before

\* C6: the quasiquote of (if a b) has returned a combination of four
\* elements, and its datum has four elements too
C6_IfGrew ==
  /\ pc \in {"prompt", "eval"}
  /\ last.src = LineTree("Quasi", 3)
  /\ last.err = "none"
  /\ \E i \in Quasiquotes :
       /\ Len(log[i].before.sub) = 3
       /\ Len(log[i].result.sub) = 4
       /\ Len(log[i].after.sub) = 4

\* C7: the lexer fails with SyntaxError alone, and then only on an input that
\* holds a double quote; and every iteration of its loop that does not fail
\* leaves less input than it found, so that the loop ends.
C7_LexerTotal ==
  /\ lexerr \in {"none", "SyntaxError"}
  /\ lexerr = "SyntaxError" => "\"" \in Range(source)
  /\ lexpc = "lexing" /\ inpt # <<>> =>
       LET r == extract_token(inpt) IN r.err # "none" \/ Len(r.rest) < Len(inpt)

\* C7: the lexer has failed with RecursionError on an input with a comment
\* that no newline ends
C7_CommentToTheEnd ==
  /\ lexpc = "failed"
  /\ lexerr = "RecursionError"
  /\ ";" \in Range(source)
  /\ "\n" \notin Range(source)

\* C7: the loop of the lexer has appended an empty token and left the input,
\* which starts with a character no token can hold, as it found it
C7_LoopRepeats ==
  /\ lexpc = "lexing"
  /\ tokens # <<>> /\ tokens[Len(tokens)] = <<>>
  /\ inpt # <<>> /\ Head(inpt) = "["
  /\ extract_token(inpt).rest = inpt

\* the depth of open "(" after every token: none is negative and the last is 0
RECURSIVE Balanced(_, _)
Balanced(toks, depth) ==
  IF toks = <<>> THEN depth = 0
  ELSE IF Head(toks) = LP THEN Balanced(Tail(toks), depth + 1)
  ELSE IF Head(toks) = RP THEN depth > 0 /\ Balanced(Tail(toks), depth - 1)
  ELSE Balanced(Tail(toks), depth)

\* every ")" has its "(", every "(" its ")", and every sugar marker is
\* followed, inside its combination, by an expression
WellFormed(toks) ==
  /\ Balanced(toks, 0)
  /\ \A i \in DOMAIN toks :
       toks[i] \in SugarTokens => i < Len(toks) /\ toks[i + 1] # RP

\* an expression completed in a frame: wrapped in the sugar that waits for
\* it, the innermost marker last, and appended to the items of the frame
RECURSIVE Wrapped(_, _)
Wrapped(sugar, e) ==
  IF sugar = <<>> THEN e
  ELSE CombinationExpr(<<Name(Head(sugar)), Wrapped(Tail(sugar), e)>>)

Completed(frame, e) ==
  [items |-> Append(frame.items, Wrapped(frame.sugar, e)), sugar |-> <<>>]

EmptyFrame == [items |-> <<>>, sugar |-> <<>>]

\* the tree of a well-formed token sequence, read token by token with a
\* stack of the open combinations; the first frame is the innermost
RECURSIVE RefParseFrom(_, _)
RefParseFrom(toks, stack) ==
  IF toks = <<>> THEN stack[Len(stack)].items
  ELSE LET t == Head(toks)
           top == Head(stack)
       IN
       IF t = LP THEN RefParseFrom(Tail(toks), <<EmptyFrame>> \o stack)
       ELSE IF t = RP
         THEN RefParseFrom(Tail(toks),
                <<Completed(stack[2], CombinationExpr(top.items))>> \o Tail(Tail(stack)))
       ELSE IF t \in SugarTokens
         THEN RefParseFrom(Tail(toks),
                <<[top EXCEPT !.sugar = Append(@, SugarName(t))]>> \o Tail(stack))
       ELSE RefParseFrom(Tail(toks),
                <<Completed(top, create_symbolic_expr(t))>> \o Tail(stack))

RefParse(toks) == RefParseFrom(toks, <<EmptyFrame>>)

\* C8: parse_tokens fails exactly on the token sequences that are not well
\* formed, and then with SyntaxError; on the others it returns the top-level
\* expressions in order, every group between "(" and ")" as one combination
\* of its interior, every sugar marker as the combination of its name and
\* the expression that follows.
C8_ParseTokens ==
  ppc \in {"parsed", "parsefailed", "printed", "reparsed"} =>
    /\ ptree.err # "none" <=> ~WellFormed(ptoks.tokens)
    /\ ptree.err \in {"none", "SyntaxError"}
    /\ ptree.err = "none" => ptree.exprs = RefParse(ptoks.tokens)

\* C8: a sequence with a combination inside a combination and a sugar marker
\* has been parsed
C8_NestedParsed ==
  /\ ppc = "parsed"
  /\ ptoks.tokens = <<"(", "'", "(", ")", ")">>
  /\ ptree.exprs = <<CombinationExpr(<<CombinationExpr(<<Name(S_quote),
                                                        CombinationExpr(<<>>)>>)>>)>>

\* C9: the printed form of the parsed expressions parses to the same
\* expressions again, and a string literal prints as its token, with the
\* double quotes.
C9_RoundTrip ==
  /\ ppc = "reparsed" => ptree2 = ptree
  /\ ppc \in {"printed", "reparsed"} =>
       \A tok \in Strings(ParseAlphabet, MaxSrcLen) :
         ptoks.tokens = <<tok>> /\ tok # <<>> /\ Head(tok) = "\"" => printed = tok

\* C9: the string literal "a" has been printed as a and parsed again as the
\* name a
C9_StringBecameName ==
  /\ ppc = "reparsed"
  /\ ptree.exprs = <<StringLiteral(<<"\"", "a", "\"">>)>>
  /\ printed = <<"a">>
  /\ ptree2.exprs = <<Name(<<"a">>)>>

\* C10: once exit has been called, no prompt is issued, no expression is
\* evaluated and nothing is printed.
C10_ExitStopsLoop ==
  [][exited => prompts' = prompts /\ last'.n = last.n /\ out' = out]_vars

\* C10: a prompt has been issued after the call of exit, and the error of
\* reading the closed input has been printed
C10_PromptAfterExit ==
  /\ exited
  /\ pc = "prompt"
  /\ prompts > Len(typed)
  /\ out = <<ErrorLine("ValueError")>>

\* the LambdaExpr objects
LambdaObjects == {o \in DOMAIN lams : lists[lams[o].l][1] = Name(S_lambda)}

W_add == <<"a","d","d">>

\* add is bound in the global environment to the lambda (lambda (x) (+ x n))
\* that the first line of the Closure book evaluated in a frame binding n to 3
AddDefined ==
  /\ pc \in {"prompt", "eval", "stopped"}
  /\ W_add \in DOMAIN GlobalBindings
  /\ GlobalBindings[W_add].k = "Lambda"
  /\ Tree(GlobalBindings[W_add], Store) = LineTree("Closure", 1).sub[3].sub[1].sub[3]

\* C11: the closure of a LambdaExpr object, once the object has been
\* evaluated, is the same environment after every step, whatever evaluates
\* the object again.
C11_ClosureCapturedOnce ==
  [][\A o \in LambdaObjects : lams'[o].closure = lams[o].closure]_vars

\* C11: after (eval add) at the prompt the closure of the lambda bound to add
\* is the global environment, and the call (add 4) has raised NameError on
\* the name n, which the frame of the definition binds to 3
C11_ClosureLost ==
  /\ AddDefined
  /\ typed = <<1, 3, 2>>
  /\ lams[GlobalBindings[W_add].o].closure = GLOBAL
  /\ last.src = LineTree("Closure", 2)
  /\ last.err = "NameError"

\* the tree of (display "...")
IsDisplayCall(t) ==
  t.k = "Comb" /\ Len(t.sub) = 2 /\ t.sub[1] = Name(W_display) /\ t.sub[2].k = "Str"

\* a call whose operator is written as a lambda, as a mu, or as the name of
\* the builtin cons, and whose operands are all calls of display on a string
IsCallOnDisplays(t) ==
  /\ t.k = "Comb" /\ t.sub # <<>>
  /\ \/ t.sub[1] = Name(W_cons)
     \/ /\ t.sub[1].k = "Comb" /\ Len(t.sub[1].sub) = 3
        /\ t.sub[1].sub[1] \in {Name(S_lambda), Name(S_mu)}
        /\ t.sub[1].sub[3].k \in Literals
  /\ \A j \in 2..Len(t.sub) : IsDisplayCall(t.sub[j])

\* what the evaluation of the operands of such a call writes: the string of
\* every operand, in the order of the operands
OperandsWritten(t) ==
  [j \in 1..(Len(t.sub) - 1) |-> [k |-> "display", text |-> t.sub[j + 1].sub[2].v]]

\* what the last step wrote before it printed the value
WrittenBeforeValue == SubSeq(out, 1, Len(out) - 1)

\* C12: a call of a lambda, a mu or a builtin evaluates every operand once,
\* from left to right, whatever the number of the formals: when the operands
\* are calls of display, what is written is the string of every operand, in
\* order, and then the value is printed; and a side effect of the operator
\* comes before those of the operands.
C12_OperandOrder ==
  last.n > 0 /\ pc \in {"prompt", "eval"} /\ out # <<>> /\ out[Len(out)].k = "print" =>
    /\ IsCallOnDisplays(last.src) => WrittenBeforeValue = OperandsWritten(last.src)
    /\ last.src = LineTree("Order", 6) =>
         WrittenBeforeValue = <<[k |-> "display", text |-> <<"a">>],
                                [k |-> "display", text |-> <<"b">>]>>

\* C12: the call of (mu (x) 0) on two operands has returned having written
\* the string of the first operand alone
C12_SecondOperandSkipped ==
  /\ pc \in {"prompt", "eval"}
  /\ last.src = LineTree("Order", 3)
  /\ last.err = "none"
  /\ out = <<[k |-> "display", text |-> <<"a">>], [k |-> "print", text |-> <<"0">>]>>

\* C12: the call of a lambda of two formals on two operands has written the
\* strings of both, in order
C12_BothOperandsWritten ==
  /\ last.src = LineTree("Order", 1)
  /\ out = <<[k |-> "display", text |-> <<"a">>], [k |-> "display", text |-> <<"b">>],
             [k |-> "print", text |-> <<"0">>]>>

\* the keywords whose class defines form_name and nargs
ImplementedKeywords ==
  {S_define, S_if, S_lambda, S_mu, S_quote, S_quasiquote, S_unquote, S_define_macro}

\* a combination headed by an implemented keyword and written with a number
\* of sub-expressions its form does not take
IsIllShaped(t) ==
  /\ t.k = "Comb" /\ t.sub # <<>>
  /\ t.sub[1].k = "Name" /\ t.sub[1].s \in ImplementedKeywords
  /\ Len(t.sub) \notin Shape(t.sub[1].s)

\* C13: the evaluation of a combination headed by an implemented keyword
\* and written with a wrong number of sub-expressions fails with SyntaxError,
\* and the combination is not evaluated as a CallExpr.
C13_BadShapeIsSyntaxError ==
  /\ last.n > 0 /\ IsIllShaped(last.src) => last.err = "SyntaxError"
  /\ \A i \in Sifts :
       log[i].head \in ImplementedKeywords /\ log[i].len \notin Shape(log[i].head)
         => log[i].cls # "CallExpr"

\* C13: (define a) has been evaluated at the prompt as a CallExpr, and the
\* lookup of the name define has raised NameError
C13_DefineLookedUp ==
  /\ pc \in {"prompt", "eval"}
  /\ last.src = LineTree("Forms", 19)
  /\ IsIllShaped(last.src)
  /\ last.err = "NameError"
  /\ \E i \in Sifts : log[i].head = S_define /\ log[i].len = 2 /\ log[i].cls = "CallExpr"

\* the calls the last evaluation made
Calls == {i \in DOMAIN log : log[i].ev = "call"}

\* C14: no two environments hold the same bindings dict, the global one and
\* the frames of the lambda, mu and macro calls; and a define evaluated in
\* one environment leaves the names that every other environment binds
\* itself as they were.
C14_OwnBindings ==
  /\ \A e1, e2 \in DOMAIN envs : e1 # e2 => envs[e1].map # envs[e2].map
  /\ \A i \in Defines :
       LET d == log[i] IN
       \A e \in DOMAIN d.before :
         e # d.env => DOMAIN d.after[e].bindings = DOMAIN d.before[e].bindings
  /\ \A i \in Calls : log[i].exec_env # GLOBAL /\ log[i].exec_env \in DOMAIN envs

\* C14: a define evaluated in the frame of a call made from the frame of
\* another call has bound a name that the frame of the caller binds too and
\* the global environment does not
C14_DefineInInnerFrame ==
  /\ pc \in {"prompt", "eval"}
  /\ Len(envs) >= 3
  /\ \E i \in Defines :
       LET d == log[i] IN
       /\ d.env # GLOBAL
       /\ d.after[d.env].parent # GLOBAL
       /\ d.name.s \in DOMAIN d.after[d.after[d.env].parent].bindings
       /\ d.after[d.after[d.env].parent].bindings[d.name.s] # d.val
       /\ d.name.s \notin DOMAIN d.after[GLOBAL].bindings
       /\ d.name.s \notin DOMAIN GlobalBindings

=============================================================================
